---- MODULE Spec2Model ----
(***************************************************************************)
(* The schema compiler of gojsonschema (schema.go): NewSchema, parseSchema, *)
(* parseReference, parseProperties, parseDependencies, SetRootSchemaName,   *)
(* as a state machine over an explicit call stack.                          *)
(***************************************************************************)
EXTENDS Integers, Sequences, FiniteSets, TLC

VARIABLES
    loader,         \* the JSONLoader handed to NewSchema: its reference and its document
    status,         \* "init", "running", "ok", "error", "overflow"
    nodes,          \* the arena of subSchema nodes; a node's identity is its index
    rootSchema,     \* Schema.rootSchema (0 = nil)
    referencePool,  \* Schema.referencePool: key -> node
    standalone,     \* schemaPool's standalone document (Null = none)
    fetched,        \* the references schemaPool.GetDocument was asked for
    regexpCache,    \* the process-wide regexpCache (its keys)
    stack,          \* the call stack of parseSchema frames
    result,         \* the error NewSchema returned (NoErr = nil)
    log,            \* the keyword groups processed so far: <<node, group>>
    calls           \* the regexpCompile calls of compiles that run in parallel

vars == <<loader, status, nodes, rootSchema, referencePool, standalone, fetched,
          regexpCache, calls, stack, result, log>>

(***************************************************************************)
(* Bounds of the model.                                                     *)
(***************************************************************************)
MaxDepth == 9      \* frames the call stack may hold before the run is cut off

(***************************************************************************)
(* Generic JSON values, as encoding/json decodes them.  A JSON string is a  *)
(* sequence of tokens so that strings can be concatenated and split; a      *)
(* number is kept in halves so that 1.5 exists (num = 3).  JSON null        *)
(* decodes to a nil interface, the same value a missing key gives.          *)
(***************************************************************************)
Null == [t |-> "null"]
Bool(b) == [t |-> "bool", bool |-> b]
Num(n) == [t |-> "number", num |-> 2 * n]
Half(n) == [t |-> "number", num |-> 2 * n + 1]
Str(s) == [t |-> "string", str |-> s]
Arr(a) == [t |-> "array", arr |-> a]
Map(m) == [t |-> "map", map |-> m]
EmptyMap == [k \in {} |-> Null]
EmptyDoc == Map(EmptyMap)

isKindMap(v) == v.t = "map"

Some(x) == <<x>>
None == <<>>

mustBeNumber(v) == IF v.t = "number" THEN Some(v.num) ELSE None
mustBeInteger(v) == IF v.t = "number" /\ v.num % 2 = 0 THEN Some(v.num \div 2) ELSE None

(***************************************************************************)
(* Errors: the locale template and the detail that names the offender.      *)
(***************************************************************************)
NoErr == [tmpl |-> "nil", key |-> "nil"]
Err(tmpl, key) == [tmpl |-> tmpl, key |-> key]

(***************************************************************************)
(* JSON references (gojsonreference).  A reference string is the tokens of  *)
(* its URL, then "#", then the tokens of its pointer.                       *)
(***************************************************************************)
RECURSIVE IndexOf(_, _, _)
IndexOf(s, x, i) ==
    IF i > Len(s) THEN 0 ELSE IF s[i] = x THEN i ELSE IndexOf(s, x, i + 1)

RefBase(s) ==
    LET h == IndexOf(s, "#", 1) IN IF h = 0 THEN s ELSE SubSeq(s, 1, h - 1)
RefPointer(s) ==
    LET h == IndexOf(s, "#", 1) IN IF h = 0 THEN <<>> ELSE SubSeq(s, h + 1, Len(s))

\* url.Parse fails on a malformed escape
ValidReference(s) == IndexOf(s, "%", 1) = 0
HasFullUrl(s) == RefBase(s) # <<>>
\* JsonReference.String(): the document root prints as "#"
RefString(base, ptr) == base \o <<"#">> \o ptr
\* JsonReference.Inherits: url.ResolveReference keeps the parent's URL for a
\* fragment-only child, and the parent's fragment too when the child's is empty
Inherits(parent, child) ==
    IF RefPointer(child) = <<>>
    THEN parent
    ELSE RefString(RefBase(parent), RefPointer(child))

\* JsonPointer.Get: walks mappings token by token; a missing token fails
RECURSIVE PointerGet(_, _)
PointerGet(doc, ptr) ==
    IF ptr = <<>> THEN [ok |-> TRUE, node |-> doc]
    ELSE IF doc.t = "map" /\ Head(ptr) \in DOMAIN doc.map
         THEN PointerGet(doc.map[Head(ptr)], Tail(ptr))
         ELSE [ok |-> FALSE, node |-> Null]

(***************************************************************************)
(* Sub-schema nodes.                                                        *)
(***************************************************************************)
STRING_ROOT_SCHEMA_PROPERTY == "(root)"
NilVariant == [t |-> "nil"]
BoolVariant(b) == [t |-> "bool", bool |-> b]
SchemaVariant(i) == [t |-> "schema", node |-> i]
ListVariant(l) == [t |-> "list", list |-> l]

\* documentNode is not a field of the struct: it records the document node that
\* parseSchema was called with for this node
subSchema(property, parent, ref) ==
    [property |-> property, parent |-> parent, ref |-> ref, documentNode |-> Null,
     subSchema |-> None, id |-> None, title |-> None, description |-> None,
     types |-> <<>>, refSchema |-> 0,
     definitions |-> EmptyMap, propertiesChildren |-> <<>>,
     patternProperties |-> EmptyMap, additionalProperties |-> NilVariant,
     dependencies |-> EmptyMap,
     itemsChildren |-> <<>>, itemsChildrenIsSingleSchema |-> FALSE,
     additionalItems |-> NilVariant,
     multipleOf |-> None, minimum |-> None, maximum |-> None,
     exclusiveMinimum |-> FALSE, exclusiveMaximum |-> FALSE,
     minLength |-> None, maxLength |-> None, pattern |-> None, format |-> None,
     minProperties |-> None, maxProperties |-> None, required |-> <<>>,
     minItems |-> None, maxItems |-> None, uniqueItems |-> FALSE,
     enum |-> <<>>, oneOf |-> <<>>, anyOf |-> <<>>, allOf |-> <<>>, not |-> 0]

(***************************************************************************)
(* parseSchema: the keyword extraction switch and the scalar keywords.      *)
(***************************************************************************)
\* the cases of the switch that collects the keyword values
SwitchKeys ==
    {"$schema", "$ref", "definitions", "id", "description", "type", "properties",
     "additionalProperties", "patternProperties", "dependencies", "items",
     "additionalItems", "multipleOf", "minimum", "exclusiveMinimum", "maximum",
     "exclusiveMaximum", "minLength", "maxLength", "pattern", "format",
     "minProperties", "maxProperties", "required", "minItems", "maxItems",
     "uniqueItems", "enum", "oneOf", "anyOf", "allOf", "not"}

\* the value of the variable xV after the switch: nil unless a case collected it
Var(m, k) == IF k \in SwitchKeys /\ k \in DOMAIN m THEN m[k] ELSE Null

Ok(n) == [err |-> NoErr, node |-> n]
Fail(e, n) == [err |-> e, node |-> n]
\* one keyword after the other: the first error returns
Then(r, F(_, _), m) == IF r.err # NoErr THEN r ELSE F(r.node, m)

ParseSchemaKeyword(n, m) ==
    LET v == Var(m, "$schema") IN
    IF v.t = "null" THEN Ok(n)
    ELSE IF v.t = "string"
         THEN IF ValidReference(v.str)
              THEN Ok([n EXCEPT !.subSchema = Some(v.str)])
              ELSE Fail(Err("NewJsonReference", "$schema"), n)
         ELSE Fail(Err("InvalidType", "$schema"), n)

ParseId(n, m) ==
    LET v == Var(m, "id") IN
    IF v.t = "null" THEN Ok(n)
    ELSE IF v.t = "string" THEN Ok([n EXCEPT !.id = Some(v.str)])
         ELSE Fail(Err("InvalidType", "id"), n)

ParseTitle(n, m) ==
    LET v == Var(m, "title") IN
    IF v.t = "null" THEN Ok(n)
    ELSE IF v.t = "string" THEN Ok([n EXCEPT !.title = Some(v.str)])
         ELSE Fail(Err("InvalidType", "title"), n)

ParseDescription(n, m) ==
    LET v == Var(m, "description") IN
    IF v.t = "null" THEN Ok(n)
    ELSE IF v.t = "string" THEN Ok([n EXCEPT !.description = Some(v.str)])
         ELSE Fail(Err("InvalidType", "description"), n)

JSON_TYPES ==
    {<<"array">>, <<"boolean">>, <<"integer">>, <<"number">>, <<"null">>,
     <<"object">>, <<"string">>}
InSeq(s, x) == \E i \in 1..Len(s) : s[i] = x
\* jsonSchemaType.Add: rejects a name that is no JSON type, and a duplicate
TypesAdd(types, k) ==
    IF k \notin JSON_TYPES THEN [err |-> Err("NotAValidType", "type"), types |-> types]
    ELSE IF InSeq(types, k) THEN [err |-> Err("Duplicated", "type"), types |-> types]
    ELSE [err |-> NoErr, types |-> Append(types, k)]

RECURSIVE AddTypesInArray(_, _)
AddTypesInArray(n, a) ==
    IF a = <<>> THEN Ok(n)
    ELSE IF Head(a).t = "string"
         THEN AddTypesInArray([n EXCEPT !.types = TypesAdd(n.types, Head(a).str).types],
                              Tail(a))
         ELSE Fail(Err("InvalidType", "type"), n)

ParseType(n, m) ==
    LET v == Var(m, "type") IN
    IF v.t = "null" THEN Ok(n)
    ELSE IF v.t = "string"
         THEN LET r == TypesAdd(n.types, v.str) IN
              IF r.err # NoErr THEN Fail(r.err, n) ELSE Ok([n EXCEPT !.types = r.types])
         ELSE IF v.t = "array" THEN AddTypesInArray(n, v.arr)
         ELSE Fail(Err("InvalidType", "type"), n)

ParseAnnotations(n, m) ==
    Then(Then(Then(ParseId(n, m), ParseTitle, m), ParseDescription, m), ParseType, m)

ParseMultipleOf(n, m) ==
    LET v == Var(m, "multipleOf") IN
    IF v.t = "null" THEN Ok(n)
    ELSE IF mustBeNumber(v) = None THEN Fail(Err("InvalidType", "multipleOf"), n)
    ELSE IF mustBeNumber(v)[1] <= 0 THEN Fail(Err("GreaterThanZero", "multipleOf"), n)
    ELSE Ok([n EXCEPT !.multipleOf = mustBeNumber(v)])

ParseMinimum(n, m) ==
    LET v == Var(m, "minimum") IN
    IF v.t = "null" THEN Ok(n)
    ELSE IF mustBeNumber(v) = None THEN Fail(Err("MustBeOfA", "minimum"), n)
    ELSE Ok([n EXCEPT !.minimum = mustBeNumber(v)])

\* the variant without the test `currentSchema.minimum == nil`
ParseExclusiveMinimum_NoBase(n, m) ==
    LET v == Var(m, "exclusiveMinimum") IN
    IF v.t = "null" THEN Ok(n)
    ELSE IF v.t = "bool" THEN Ok([n EXCEPT !.exclusiveMinimum = v.bool])
         ELSE Fail(Err("MustBeOfA", "exclusiveMinimum"), n)

ParseExclusiveMinimum(n, m) ==
    LET v == Var(m, "exclusiveMinimum") IN
    IF v.t = "null" THEN Ok(n)
    ELSE IF v.t = "bool"
         THEN IF n.minimum = None
              THEN Fail(Err("CannotBeUsedWithout", "exclusiveMinimum"), n)
              ELSE Ok([n EXCEPT !.exclusiveMinimum = v.bool])
         ELSE Fail(Err("MustBeOfA", "exclusiveMinimum"), n)

ParseMaximum(n, m) ==
    LET v == Var(m, "maximum") IN
    IF v.t = "null" THEN Ok(n)
    ELSE IF mustBeNumber(v) = None THEN Fail(Err("MustBeOfA", "maximum"), n)
    ELSE Ok([n EXCEPT !.maximum = mustBeNumber(v)])

ParseExclusiveMaximum(n, m) ==
    LET v == Var(m, "exclusiveMaximum") IN
    IF v.t = "null" THEN Ok(n)
    ELSE IF v.t = "bool"
         THEN IF n.maximum = None
              THEN Fail(Err("CannotBeUsedWithout", "exclusiveMaximum"), n)
              ELSE Ok([n EXCEPT !.exclusiveMaximum = v.bool])
         ELSE Fail(Err("MustBeOfA", "exclusiveMaximum"), n)

\* the variant without the comparison of the two bounds
CheckMinimumMaximum_Skipped(n, m) == Ok(n)

CheckMinimumMaximum(n, m) ==
    IF n.minimum # None /\ n.maximum # None /\ n.minimum[1] > n.maximum[1]
    THEN Fail(Err("CannotBeGT", "minimum"), n)
    ELSE Ok(n)

ParseNumber(n, m) ==
    Then(Then(Then(Then(Then(ParseMultipleOf(n, m), ParseMinimum, m),
        ParseExclusiveMinimum, m), ParseMaximum, m), ParseExclusiveMaximum, m),
        CheckMinimumMaximum, m)

\* the four count keywords share their shape: an integer, not negative
Count(v, key) ==
    IF mustBeInteger(v) = None THEN [err |-> Err("MustBeOfAn", key), val |-> None]
    ELSE IF mustBeInteger(v)[1] < 0 THEN [err |-> Err("MustBeGTEZero", key), val |-> None]
    ELSE [err |-> NoErr, val |-> mustBeInteger(v)]

ParseMinLength(n, m) ==
    LET v == Var(m, "minLength") IN
    IF v.t = "null" THEN Ok(n)
    ELSE IF Count(v, "minLength").err # NoErr THEN Fail(Count(v, "minLength").err, n)
    ELSE Ok([n EXCEPT !.minLength = Count(v, "minLength").val])

ParseMaxLength(n, m) ==
    LET v == Var(m, "maxLength") IN
    IF v.t = "null" THEN Ok(n)
    ELSE IF Count(v, "maxLength").err # NoErr THEN Fail(Count(v, "maxLength").err, n)
    ELSE Ok([n EXCEPT !.maxLength = Count(v, "maxLength").val])

CheckMinLengthMaxLength(n, m) ==
    IF n.minLength # None /\ n.maxLength # None /\ n.minLength[1] > n.maxLength[1]
    THEN Fail(Err("CannotBeGT", "minLength"), n)
    ELSE Ok(n)

\* regexp.Compile: the unbalanced parenthesis is the pattern that fails
RegexpValid(key) == IndexOf(key, "(", 1) = 0

ParsePattern(n, m) ==
    LET v == Var(m, "pattern") IN
    IF v.t = "null" THEN Ok(n)
    ELSE IF v.t = "string"
         THEN IF RegexpValid(v.str) THEN Ok([n EXCEPT !.pattern = Some(v.str)])
              ELSE Fail(Err("MustBeValidRegex", "pattern"), n)
         ELSE Fail(Err("MustBeOfA", "pattern"), n)

\* FormatCheckers.Has: the registered format names
FormatCheckersHas(s) == s \in {<<"email">>, <<"date-time">>}

ParseFormat(n, m) ==
    LET v == Var(m, "format") IN
    IF v.t = "null" THEN Ok(n)
    ELSE IF v.t = "string" /\ FormatCheckersHas(v.str)
         THEN Ok([n EXCEPT !.format = Some(v.str)])
         ELSE Fail(Err("MustBeValidFormat", "format"), n)

ParseString(n, m) ==
    Then(Then(Then(Then(ParseMinLength(n, m), ParseMaxLength, m),
        CheckMinLengthMaxLength, m), ParsePattern, m), ParseFormat, m)

ParseMinProperties(n, m) ==
    LET v == Var(m, "minProperties") IN
    IF v.t = "null" THEN Ok(n)
    ELSE IF Count(v, "minProperties").err # NoErr
         THEN Fail(Count(v, "minProperties").err, n)
    ELSE Ok([n EXCEPT !.minProperties = Count(v, "minProperties").val])

ParseMaxProperties(n, m) ==
    LET v == Var(m, "maxProperties") IN
    IF v.t = "null" THEN Ok(n)
    ELSE IF Count(v, "maxProperties").err # NoErr
         THEN Fail(Count(v, "maxProperties").err, n)
    ELSE Ok([n EXCEPT !.maxProperties = Count(v, "maxProperties").val])

CheckMinPropertiesMaxProperties(n, m) ==
    IF n.minProperties # None /\ n.maxProperties # None
       /\ n.minProperties[1] > n.maxProperties[1]
    THEN Fail(Err("KeyCannotBeGreaterThan", "minProperties"), n)
    ELSE Ok(n)

\* subSchema.AddRequired: rejects a duplicate name
RECURSIVE AddRequiredValues(_, _)
AddRequiredValues(n, a) ==
    IF a = <<>> THEN Ok(n)
    ELSE IF Head(a).t = "string"
         THEN IF InSeq(n.required, Head(a).str)
              THEN Fail(Err("KeyItemsMustBeUnique", "required"), n)
              ELSE AddRequiredValues([n EXCEPT !.required = Append(@, Head(a).str)],
                                     Tail(a))
         ELSE Fail(Err("KeyItemsMustBeOfType", "required"), n)

ParseRequired(n, m) ==
    LET v == Var(m, "required") IN
    IF v.t = "null" THEN Ok(n)
    ELSE IF v.t = "array" THEN AddRequiredValues(n, v.arr)
         ELSE Fail(Err("MustBeOfAn", "required"), n)

ParseObject(n, m) ==
    Then(Then(Then(ParseMinProperties(n, m), ParseMaxProperties, m),
        CheckMinPropertiesMaxProperties, m), ParseRequired, m)

ParseMinItems(n, m) ==
    LET v == Var(m, "minItems") IN
    IF v.t = "null" THEN Ok(n)
    ELSE IF Count(v, "minItems").err # NoErr THEN Fail(Count(v, "minItems").err, n)
    ELSE Ok([n EXCEPT !.minItems = Count(v, "minItems").val])

ParseMaxItems(n, m) ==
    LET v == Var(m, "maxItems") IN
    IF v.t = "null" THEN Ok(n)
    ELSE IF Count(v, "maxItems").err # NoErr THEN Fail(Count(v, "maxItems").err, n)
    ELSE Ok([n EXCEPT !.maxItems = Count(v, "maxItems").val])

ParseUniqueItems(n, m) ==
    LET v == Var(m, "uniqueItems") IN
    IF v.t = "null" THEN Ok(n)
    ELSE IF v.t = "bool" THEN Ok([n EXCEPT !.uniqueItems = v.bool])
         ELSE Fail(Err("MustBeOfA", "uniqueItems"), n)

ParseArray(n, m) ==
    Then(Then(ParseMinItems(n, m), ParseMaxItems, m), ParseUniqueItems, m)

\* subSchema.AddEnum: rejects a duplicate value
RECURSIVE AddEnumValues(_, _)
AddEnumValues(n, a) ==
    IF a = <<>> THEN Ok(n)
    ELSE IF InSeq(n.enum, Head(a))
         THEN Fail(Err("KeyItemsMustBeUnique", "enum"), n)
         ELSE AddEnumValues([n EXCEPT !.enum = Append(@, Head(a))], Tail(a))

ParseEnum(n, m) ==
    LET v == Var(m, "enum") IN
    IF v.t = "null" THEN Ok(n)
    ELSE IF v.t = "array" THEN AddEnumValues(n, v.arr)
         ELSE Fail(Err("MustBeOfAn", "enum"), n)

(***************************************************************************)
(* The call stack.  A frame is one invocation of parseSchema: the node it   *)
(* fills, the document node it reads, and the keyword group it has reached. *)
(***************************************************************************)
Groups ==
    <<"$ref", "definitions", "annotations", "properties", "additionalProperties",
      "patternProperties", "dependencies", "items", "additionalItems", "number",
      "string", "object", "array", "enum", "oneOf", "anyOf", "allOf", "not">>

KeysOf(g) ==
    CASE g = "annotations" -> {"id", "title", "description", "type"}
      [] g = "number" -> {"multipleOf", "minimum", "exclusiveMinimum", "maximum",
                          "exclusiveMaximum"}
      [] g = "string" -> {"minLength", "maxLength", "pattern", "format"}
      [] g = "object" -> {"minProperties", "maxProperties", "required"}
      [] g = "array" -> {"minItems", "maxItems", "uniqueItems"}
      [] OTHER -> {g}

\* a group is entered when one of its `if xV != nil` tests passes
Present(m, g) == \E k \in KeysOf(g) : Var(m, k).t # "null"
GroupIndex(g) == IF g = "entry" THEN 0 ELSE IndexOf(Groups, g, 1)
NextPc(m, g) ==
    LET later == {j \in (GroupIndex(g) + 1)..Len(Groups) : Present(m, Groups[j])} IN
    IF later = {} THEN "return"
    ELSE Groups[CHOOSE j \in later : \A i \in later : j <= i]

Frame(node, doc, typeChecked) ==
    [node |-> node, doc |-> doc, typeChecked |-> typeChecked, pc |-> "entry",
     started |-> FALSE, keys |-> {}, idx |-> 0, key |-> "", err |-> NoErr]

\* `return err` / `return nil`
Finish(f, e) == [f EXCEPT !.pc = "return", !.err = e]
\* falls through to the next keyword group of the function
Advance(f) ==
    [f EXCEPT !.pc = NextPc(f.doc.map, f.pc), !.started = FALSE, !.keys = {},
              !.idx = 0, !.key = "", !.err = NoErr]

Running == status = "running" /\ stack # <<>> /\ Len(stack) < MaxDepth
top == stack[Len(stack)]
cur == top.node
SetTop(f) == [stack EXCEPT ![Len(stack)] = f]
\* the child node a keyword allocates: it inherits the parent's ref
NewNode(property, parent) == subSchema(property, parent, nodes[parent].ref)
Call(parentFrame, doc, typeChecked) ==
    Append(SetTop(parentFrame), Frame(Len(nodes) + 1, doc, typeChecked))

(***************************************************************************)
(* NewSchema up to the call of parseSchema on the root.                     *)
(***************************************************************************)
NewSchema ==
    /\ status = "init"
    /\ IF ~loader.ok
       THEN /\ status' = "error"
            /\ result' = Err("loader", "loader")
            /\ fetched' = IF loader.ref # <<"#">> THEN Append(fetched, loader.ref)
                          ELSE fetched
            /\ UNCHANGED <<nodes, rootSchema, standalone, stack>>
       ELSE /\ status' = "running"
            /\ fetched' = IF loader.ref # <<"#">> THEN Append(fetched, loader.ref)
                          ELSE fetched
            /\ standalone' = IF loader.ref # <<"#">> THEN standalone ELSE loader.doc
            /\ nodes' = <<subSchema(STRING_ROOT_SCHEMA_PROPERTY, 0, <<>>)>>
            /\ rootSchema' = 1
            /\ stack' = <<Frame(1, loader.doc, FALSE)>>
            /\ UNCHANGED result
    /\ UNCHANGED <<loader, referencePool, regexpCache, calls, log>>

\* the head of parseSchema: the type check, the root's ref, $schema
parseSchema_entry ==
    /\ Running /\ top.pc = "entry"
    /\ log' = Append(log, <<cur, "entry">>)
    /\ IF ~top.typeChecked /\ ~isKindMap(top.doc)
       THEN /\ stack' = SetTop(Finish(top, Err("InvalidType", "schema")))
            /\ nodes' = [nodes EXCEPT ![cur].documentNode = top.doc]
       ELSE LET n == IF cur = rootSchema
                     THEN [nodes[cur] EXCEPT !.ref = loader.ref, !.documentNode = top.doc]
                     ELSE [nodes[cur] EXCEPT !.documentNode = top.doc]
                r == ParseSchemaKeyword(n, top.doc.map) IN
            /\ nodes' = [nodes EXCEPT ![cur] = r.node]
            /\ stack' = SetTop(IF r.err # NoErr THEN Finish(top, r.err)
                               ELSE Advance(top))
    /\ UNCHANGED <<loader, status, rootSchema, referencePool, standalone, fetched,
                   regexpCache, calls, result>>

(***************************************************************************)
(* The reference pool and parseReference.                                   *)
(***************************************************************************)
PoolHas(pool, key) == key \in DOMAIN pool
PoolGet(pool, key) == pool[key]
PoolAdd(pool, key, node) == [k \in DOMAIN pool \cup {key} |->
                                IF k = key THEN node ELSE pool[k]]

\* the key parseSchema looks up: the node's ref as it stands, then the $ref text
LookupKey(n, k) == n.ref \o k
\* the ref parseReference gives the node before it resolves the target
ResolvedRef(n, k) == IF HasFullUrl(k) THEN k ELSE Inherits(n.ref, k)
\* the variant that registers under the ref the node had on entry
RegisterKey_Unresolved(n, k) == n.ref \o k
\* the key parseReference registers the target under
RegisterKey(n, k) == ResolvedRef(n, k) \o k

\* schemaPool.GetDocument: the loader's document for the loader's URL
PoolDocument(ref) ==
    IF loader.ref # <<"#">> /\ RefBase(ref) = RefBase(loader.ref)
    THEN [ok |-> TRUE, doc |-> loader.doc]
    ELSE [ok |-> FALSE, doc |-> Null]

\* the variant that asks the pool whenever the reference has a full URL
Target_PoolForUrl(ref) ==
    IF standalone # Null /\ ~HasFullUrl(ref)
    THEN PointerGet(standalone, RefPointer(ref))
    ELSE IF PoolDocument(ref).ok
         THEN PointerGet(PoolDocument(ref).doc, RefPointer(ref))
         ELSE [ok |-> FALSE, node |-> Null]

\* the document node a reference designates
Target(ref) ==
    IF standalone # Null
    THEN PointerGet(standalone, RefPointer(ref))
    ELSE IF PoolDocument(ref).ok
         THEN PointerGet(PoolDocument(ref).doc, RefPointer(ref))
         ELSE [ok |-> FALSE, node |-> Null]

parseSchema_ref ==
    /\ Running /\ top.pc = "$ref"
    /\ log' = Append(log, <<cur, "$ref">>)
    /\ LET v == Var(top.doc.map, "$ref")
           n == nodes[cur] IN
       IF v.t # "string"
       THEN /\ stack' = SetTop(Finish(top, Err("InvalidType", "$ref")))
            /\ UNCHANGED <<nodes, referencePool, fetched>>
       ELSE IF PoolHas(referencePool, LookupKey(n, v.str))
       THEN /\ nodes' = [nodes EXCEPT ![cur].refSchema =
                             PoolGet(referencePool, LookupKey(n, v.str))]
            /\ stack' = SetTop(Advance(top))
            /\ UNCHANGED <<referencePool, fetched>>
       ELSE \* parseReference
            IF ~ValidReference(v.str)
            THEN /\ stack' = SetTop(Finish(top, Err("NewJsonReference", "$ref")))
                 /\ UNCHANGED <<nodes, referencePool, fetched>>
            ELSE LET ref == ResolvedRef(n, v.str)
                     tgt == Target(ref) IN
                 /\ fetched' = IF standalone = Null THEN Append(fetched, ref) ELSE fetched
                 /\ IF ~tgt.ok
                    THEN /\ nodes' = [nodes EXCEPT ![cur].ref = ref]
                         /\ stack' = SetTop(Finish(top, Err("Unresolvable", "$ref")))
                         /\ UNCHANGED referencePool
                    ELSE IF ~isKindMap(tgt.node)
                    THEN /\ nodes' = [nodes EXCEPT ![cur].ref = ref]
                         /\ stack' = SetTop(Finish(top, Err("MustBeOfType", "schema")))
                         /\ UNCHANGED referencePool
                    ELSE /\ nodes' = Append([nodes EXCEPT ![cur].ref = ref],
                                            subSchema("$ref", cur, ref))
                         /\ referencePool' = PoolAdd(referencePool,
                                                     RegisterKey(n, v.str),
                                                     Len(nodes) + 1)
                         /\ stack' = Call([top EXCEPT !.started = TRUE],
                                          tgt.node, TRUE)
    /\ UNCHANGED <<loader, status, rootSchema, standalone, regexpCache, calls, result>>

(***************************************************************************)
(* The keyword groups that hold sub-schemas.  Each step handles one entry   *)
(* of the group and calls parseSchema on it; Go ranges over a map in any    *)
(* order, so the entry is any one not handled yet.                          *)
(***************************************************************************)
Unchanged_compile ==
    UNCHANGED <<loader, status, rootSchema, referencePool, standalone, fetched, result,
                calls>>

Logged(g) == IF top.started THEN log ELSE Append(log, <<cur, g>>)

parseSchema_definitions ==
    /\ Running /\ top.pc = "definitions"
    /\ log' = Logged("definitions")
    /\ LET v == Var(top.doc.map, "definitions")
           ks == IF top.started THEN top.keys ELSE DOMAIN v.map IN
       IF v.t # "map"
       THEN /\ stack' = SetTop(Finish(top, Err("InvalidType", "definitions")))
            /\ UNCHANGED nodes
       ELSE IF ks = {}
       THEN /\ stack' = SetTop(Advance(top))
            /\ UNCHANGED nodes
       ELSE \E dk \in ks :
            IF isKindMap(v.map[dk])
            THEN /\ nodes' = Append(
                       [nodes EXCEPT ![cur].definitions = (dk :> (Len(nodes) + 1)) @@ @],
                       NewNode("definitions", cur))
                 /\ stack' = Call([top EXCEPT !.started = TRUE, !.keys = ks \ {dk},
                                              !.key = dk], v.map[dk], TRUE)
            ELSE /\ stack' = SetTop(Finish(top, Err("InvalidType", "definitions")))
                 /\ UNCHANGED nodes
    /\ UNCHANGED regexpCache
    /\ Unchanged_compile

\* parseProperties
parseSchema_properties ==
    /\ Running /\ top.pc = "properties"
    /\ log' = Logged("properties")
    /\ LET v == Var(top.doc.map, "properties")
           ks == IF top.started THEN top.keys ELSE DOMAIN v.map IN
       IF v.t # "map"
       THEN /\ stack' = SetTop(Finish(top, Err("MustBeOfType", "properties")))
            /\ UNCHANGED nodes
       ELSE IF ks = {}
       THEN /\ stack' = SetTop(Advance(top))
            /\ UNCHANGED nodes
       ELSE \E k \in ks :
            /\ nodes' = Append(
                  [nodes EXCEPT ![cur].propertiesChildren = Append(@, Len(nodes) + 1)],
                  NewNode(k, cur))
            /\ stack' = Call([top EXCEPT !.started = TRUE, !.keys = ks \ {k}, !.key = k],
                             v.map[k], FALSE)
    /\ UNCHANGED regexpCache
    /\ Unchanged_compile

parseSchema_additionalProperties ==
    /\ Running /\ top.pc = "additionalProperties"
    /\ log' = Logged("additionalProperties")
    /\ LET v == Var(top.doc.map, "additionalProperties") IN
       IF v.t = "bool"
       THEN /\ nodes' = [nodes EXCEPT ![cur].additionalProperties = BoolVariant(v.bool)]
            /\ stack' = SetTop(Advance(top))
       ELSE IF v.t = "map"
       THEN /\ nodes' = Append(
                  [nodes EXCEPT ![cur].additionalProperties =
                       SchemaVariant(Len(nodes) + 1)],
                  NewNode("additionalProperties", cur))
            /\ stack' = Call([top EXCEPT !.started = TRUE], v, TRUE)
       ELSE /\ stack' = SetTop(Finish(top, Err("InvalidType", "additionalProperties")))
            /\ UNCHANGED nodes
    /\ UNCHANGED regexpCache
    /\ Unchanged_compile

parseSchema_patternProperties ==
    /\ Running /\ top.pc = "patternProperties"
    /\ log' = Logged("patternProperties")
    /\ LET v == Var(top.doc.map, "patternProperties")
           ks == IF top.started THEN top.keys ELSE DOMAIN v.map IN
       IF v.t # "map"
       THEN /\ stack' = SetTop(Finish(top, Err("InvalidType", "patternProperties")))
            /\ UNCHANGED <<nodes, regexpCache>>
       ELSE IF ks = {}
       THEN /\ stack' = SetTop(Advance(top))
            /\ UNCHANGED <<nodes, regexpCache>>
       ELSE \E k \in ks :
            IF ~RegexpValid(<<k>>)
            THEN /\ stack' = SetTop(Finish(top, Err("RegexPattern", k)))
                 /\ UNCHANGED <<nodes, regexpCache>>
            ELSE /\ regexpCache' = regexpCache \cup {<<k>>}
                 /\ nodes' = Append(nodes, NewNode(k, cur))
                 /\ stack' = Call([top EXCEPT !.started = TRUE, !.keys = ks \ {k},
                                              !.key = k], v.map[k], FALSE)
    /\ Unchanged_compile

\* the strings of a property dependency, up to the first value that is no string
RECURSIVE StringsOf(_)
StringsOf(a) ==
    IF a = <<>> \/ Head(a).t # "string" THEN <<>>
    ELSE <<Head(a).str>> \o StringsOf(Tail(a))

\* parseDependencies
parseSchema_dependencies ==
    /\ Running /\ top.pc = "dependencies"
    /\ log' = Logged("dependencies")
    /\ LET v == Var(top.doc.map, "dependencies")
           ks == IF top.started THEN top.keys ELSE DOMAIN v.map IN
       IF v.t # "map"
       THEN /\ stack' = SetTop(Finish(top, Err("MustBeOfType", "dependencies")))
            /\ UNCHANGED nodes
       ELSE IF ks = {}
       THEN /\ stack' = SetTop(Advance(top))
            /\ UNCHANGED nodes
       ELSE \E k \in ks :
            LET dv == v.map[k]
                next == [top EXCEPT !.started = TRUE, !.keys = ks \ {k}, !.key = k] IN
            IF dv.t = "array"
            THEN LET vals == StringsOf(dv.arr) IN
                 \* the entry is stored inside the loop over the values
                 /\ nodes' = IF vals = <<>> THEN nodes
                             ELSE [nodes EXCEPT ![cur].dependencies =
                                       (k :> ListVariant(vals)) @@ @]
                 /\ stack' = SetTop(IF Len(vals) < Len(dv.arr)
                                    THEN Finish(top, Err("MustBeOfType", "dependency"))
                                    ELSE next)
            ELSE IF dv.t = "map"
            THEN /\ nodes' = Append(nodes, NewNode(k, cur))
                 /\ stack' = Call(next, dv, TRUE)
            ELSE /\ stack' = SetTop(Finish(top, Err("MustBeOfType", "dependency")))
                 /\ UNCHANGED nodes
    /\ UNCHANGED regexpCache
    /\ Unchanged_compile

parseSchema_items ==
    /\ Running /\ top.pc = "items"
    /\ log' = Logged("items")
    /\ LET v == Var(top.doc.map, "items")
           i == IF top.started THEN top.idx ELSE 1
           child == Append(
               [nodes EXCEPT ![cur].itemsChildren = Append(@, Len(nodes) + 1)],
               NewNode("items", cur)) IN
       IF v.t = "array"
       THEN IF i > Len(v.arr)
            THEN /\ stack' = SetTop(Advance(top))
                 /\ UNCHANGED nodes
            ELSE IF isKindMap(v.arr[i])
            THEN /\ nodes' = child
                 /\ stack' = Call([top EXCEPT !.started = TRUE, !.idx = i + 1],
                                  v.arr[i], TRUE)
            ELSE /\ stack' = SetTop(Finish(top, Err("InvalidType", "items")))
                 /\ UNCHANGED nodes
       ELSE IF v.t = "map"
       THEN /\ nodes' = child
            /\ stack' = Call([top EXCEPT !.started = TRUE], v, TRUE)
       ELSE /\ stack' = SetTop(Finish(top, Err("InvalidType", "items")))
            /\ UNCHANGED nodes
    /\ UNCHANGED regexpCache
    /\ Unchanged_compile

parseSchema_additionalItems ==
    /\ Running /\ top.pc = "additionalItems"
    /\ log' = Logged("additionalItems")
    /\ LET v == Var(top.doc.map, "additionalItems") IN
       IF v.t = "bool"
       THEN /\ nodes' = [nodes EXCEPT ![cur].additionalItems = BoolVariant(v.bool)]
            /\ stack' = SetTop(Advance(top))
       ELSE IF v.t = "map"
       THEN /\ nodes' = Append(
                  [nodes EXCEPT ![cur].additionalItems = SchemaVariant(Len(nodes) + 1)],
                  NewNode("additionalItems", cur))
            /\ stack' = Call([top EXCEPT !.started = TRUE], v, TRUE)
       ELSE /\ stack' = SetTop(Finish(top, Err("InvalidType", "additionalItems")))
            /\ UNCHANGED nodes
    /\ UNCHANGED regexpCache
    /\ Unchanged_compile

(***************************************************************************)
(* The scalar keyword groups: one step each, no call.                       *)
(***************************************************************************)
Scalar(g, r) ==
    /\ log' = Append(log, <<cur, g>>)
    /\ nodes' = [nodes EXCEPT ![cur] = r.node]
    /\ stack' = SetTop(IF r.err # NoErr THEN Finish(top, r.err) ELSE Advance(top))
    /\ Unchanged_compile

parseSchema_annotations ==
    /\ Running /\ top.pc = "annotations"
    /\ Scalar("annotations", ParseAnnotations(nodes[cur], top.doc.map))
    /\ UNCHANGED regexpCache

parseSchema_number ==
    /\ Running /\ top.pc = "number"
    /\ Scalar("number", ParseNumber(nodes[cur], top.doc.map))
    /\ UNCHANGED regexpCache

\* regexpCompile stores the pattern it compiled
parseSchema_string ==
    /\ Running /\ top.pc = "string"
    /\ LET r == ParseString(nodes[cur], top.doc.map) IN
       /\ Scalar("string", r)
       /\ regexpCache' = IF r.node.pattern # None
                         THEN regexpCache \cup {r.node.pattern[1]}
                         ELSE regexpCache

parseSchema_object ==
    /\ Running /\ top.pc = "object"
    /\ Scalar("object", ParseObject(nodes[cur], top.doc.map))
    /\ UNCHANGED regexpCache

parseSchema_array ==
    /\ Running /\ top.pc = "array"
    /\ Scalar("array", ParseArray(nodes[cur], top.doc.map))
    /\ UNCHANGED regexpCache

parseSchema_enum ==
    /\ Running /\ top.pc = "enum"
    /\ Scalar("enum", ParseEnum(nodes[cur], top.doc.map))
    /\ UNCHANGED regexpCache

(***************************************************************************)
(* The combinators.                                                         *)
(***************************************************************************)
\* the key the error of a combinator that is no array names
KeyNamed(g) == IF g = "allOf" THEN "anyOf" ELSE g

Combinator(g) ==
    /\ Running /\ top.pc = g
    /\ log' = Logged(g)
    /\ LET v == Var(top.doc.map, g)
           i == IF top.started THEN top.idx ELSE 1 IN
       IF v.t # "array"
       THEN /\ stack' = SetTop(Finish(top, Err("MustBeOfAn", KeyNamed(g))))
            /\ UNCHANGED nodes
       ELSE IF i > Len(v.arr)
       THEN /\ stack' = SetTop(Advance(top))
            /\ UNCHANGED nodes
       ELSE /\ nodes' = Append([nodes EXCEPT ![cur][g] = Append(@, Len(nodes) + 1)],
                               NewNode(g, cur))
            /\ stack' = Call([top EXCEPT !.started = TRUE, !.idx = i + 1],
                             v.arr[i], FALSE)
    /\ UNCHANGED regexpCache
    /\ Unchanged_compile

parseSchema_oneOf == Combinator("oneOf")
parseSchema_anyOf == Combinator("anyOf")
parseSchema_allOf == Combinator("allOf")

parseSchema_not ==
    /\ Running /\ top.pc = "not"
    /\ log' = Logged("not")
    /\ LET v == Var(top.doc.map, "not") IN
       IF isKindMap(v)
       THEN /\ nodes' = Append([nodes EXCEPT ![cur].not = Len(nodes) + 1],
                               NewNode("not", cur))
            /\ stack' = Call([top EXCEPT !.started = TRUE], v, TRUE)
       ELSE /\ stack' = SetTop(Finish(top, Err("MustBeOfAn", "not")))
            /\ UNCHANGED nodes
    /\ UNCHANGED regexpCache
    /\ Unchanged_compile

(***************************************************************************)
(* A call returns: the caller tests the error and goes on.                  *)
(***************************************************************************)
\* the variant in which parseProperties drops the error of a property
AfterCall_Dropped(site, e) == IF site = "properties" THEN NoErr ELSE e

\* `if err != nil { return err }` after the call made for keyword group `site`
AfterCall(site, e) == e

\* the variant that goes on with the node's other keywords after parseReference
AfterReference_FallThrough(f) == Advance(f)

\* `return d.parseReference(...)`: parseSchema ends with parseReference's result
AfterReference(f) == Finish(f, NoErr)

parseSchema_return ==
    /\ status = "running" /\ stack # <<>> /\ top.pc = "return"
    /\ IF Len(stack) = 1
       THEN \* back in NewSchema
            /\ status' = IF top.err = NoErr THEN "ok" ELSE "error"
            /\ result' = top.err
            /\ rootSchema' = IF top.err = NoErr THEN rootSchema ELSE 0
            /\ stack' = <<>>
            /\ UNCHANGED nodes
       ELSE LET p == stack[Len(stack) - 1]
                e == AfterCall(p.pc, top.err)
                rest == SubSeq(stack, 1, Len(stack) - 2)
                child == top.node IN
            /\ UNCHANGED <<status, result, rootSchema>>
            /\ IF e # NoErr
               THEN /\ stack' = Append(rest, Finish(p, e))
                    /\ UNCHANGED nodes
               ELSE CASE p.pc = "$ref" ->
                         \* the tail of parseReference, whose result parseSchema returns
                         /\ nodes' = [nodes EXCEPT ![p.node].refSchema = child]
                         /\ stack' = Append(rest, AfterReference(p))
                      [] p.pc = "patternProperties" ->
                         /\ nodes' = [nodes EXCEPT ![p.node].patternProperties =
                                          (p.key :> child) @@ @]
                         /\ stack' = Append(rest, p)
                      [] p.pc = "dependencies" ->
                         /\ nodes' = [nodes EXCEPT ![p.node].dependencies =
                                          (p.key :> SchemaVariant(child)) @@ @]
                         /\ stack' = Append(rest, p)
                      [] p.pc = "items" ->
                         LET single == Var(p.doc.map, "items").t = "map" IN
                         /\ nodes' = [nodes EXCEPT
                                          ![p.node].itemsChildrenIsSingleSchema = single]
                         /\ stack' = Append(rest, IF single THEN Advance(p) ELSE p)
                      [] p.pc \in {"additionalProperties", "additionalItems", "not"} ->
                         /\ stack' = Append(rest, Advance(p))
                         /\ UNCHANGED nodes
                      [] OTHER ->
                         /\ stack' = Append(rest, p)
                         /\ UNCHANGED nodes
    /\ UNCHANGED <<loader, referencePool, standalone, fetched, regexpCache, calls, log>>

\* the recursion went MaxDepth frames deep: the run is cut off there
StackOverflow ==
    /\ status = "running" /\ Len(stack) >= MaxDepth
    /\ status' = "overflow"
    /\ UNCHANGED <<loader, nodes, rootSchema, referencePool, standalone, fetched,
                   regexpCache, calls, stack, result, log>>

(***************************************************************************)
(* The public operations on a compiled Schema.                              *)
(***************************************************************************)
RootNames == {"(root)", "person"}

\* the variant that renames every node of the graph
SetRootSchemaName_EveryNode(name) ==
    /\ status = "ok"
    /\ nodes' = [i \in DOMAIN nodes |-> [nodes[i] EXCEPT !.property = name]]
    /\ UNCHANGED <<loader, status, rootSchema, referencePool, standalone, fetched,
                   regexpCache, calls, stack, result, log>>

SetRootSchemaName(name) ==
    /\ status = "ok"
    /\ nodes' = [nodes EXCEPT ![rootSchema].property = name]
    /\ UNCHANGED <<loader, status, rootSchema, referencePool, standalone, fetched,
                   regexpCache, calls, stack, result, log>>

\* Validate reads the graph and builds a Result of its own
Validate ==
    /\ status = "ok"
    /\ UNCHANGED vars

(***************************************************************************)
(* The schema documents the compiler is run on.                             *)
(***************************************************************************)
RefA == <<"#", "definitions", "a">>
RefB == <<"#", "definitions", "b">>
RefRoot == <<"#">>
RefMissing == <<"#", "definitions", "zz">>
RefMalformed == <<"%">>
SchemaUrl == <<"http://h/s.json">>
RefUrlA == SchemaUrl \o RefA
S(x) == Str(<<x>>)

Counts == {Num(1), Num(2), Half(1), Num(-1), S("x")}

\* the values a single keyword is tried with: well-typed and ill-typed
Vals(k) ==
    CASE k = "$schema" -> {Str(<<"http://json-schema.org/draft-04/schema", "#">>),
                           Str(RefMalformed), Num(1)}
      [] k = "$ref" -> {Num(1), Str(RefMalformed), Str(RefMissing), Str(RefRoot)}
      [] k \in {"id", "title", "description"} -> {S("x"), Num(1)}
      [] k = "type" -> {S("string"), S("foo"), Num(1), Arr(<<Num(1)>>),
                        Arr(<<S("string"), S("number")>>),
                        Arr(<<S("string"), S("string")>>)}
      [] k = "multipleOf" -> {Num(2), Half(0), Num(0), S("x")}
      [] k \in {"minimum", "maximum"} -> {Num(1), Half(1), S("x")}
      [] k \in {"exclusiveMinimum", "exclusiveMaximum"} -> {Bool(TRUE), Bool(FALSE), Num(1)}
      [] k \in {"minLength", "maxLength", "minProperties", "maxProperties",
                "minItems", "maxItems"} -> Counts
      [] k = "pattern" -> {S("^x"), S("("), Num(1)}
      [] k = "format" -> {S("email"), S("nope"), Num(1)}
      [] k = "required" -> {Arr(<<S("p"), S("q")>>), Arr(<<S("p"), S("p")>>),
                            Arr(<<Num(1)>>), Num(1)}
      [] k = "uniqueItems" -> {Bool(TRUE), Num(1)}
      [] k = "enum" -> {Arr(<<Num(1), S("x")>>), Arr(<<Num(1), Num(1)>>), Num(1)}
      [] k = "definitions" -> {Num(1), Map("a" :> Num(1)), Map("a" :> EmptyDoc)}
      [] k = "properties" -> {Num(1), Map("p" :> Num(1)), Map("p" :> EmptyDoc)}
      [] k \in {"additionalProperties", "additionalItems"} ->
             {Bool(FALSE), EmptyDoc, Num(1)}
      [] k = "patternProperties" -> {Num(1), EmptyDoc, Map("^x" :> EmptyDoc),
                                     Map("(" :> EmptyDoc), Map("^x" :> Num(1))}
      [] k = "dependencies" -> {Num(1), Map("p" :> Num(1)), Map("p" :> EmptyDoc),
                                Map("p" :> Arr(<<>>)),
                                Map("p" :> Arr(<<S("q"), S("r")>>)),
                                Map("p" :> Arr(<<S("q"), Num(1)>>)),
                                Map(("p" :> Arr(<<S("q")>>)) @@ ("q" :> EmptyDoc))}
      [] k = "items" -> {EmptyDoc, Arr(<<EmptyDoc, EmptyDoc>>), Arr(<<Num(1)>>), Num(1)}
      [] k \in {"oneOf", "anyOf", "allOf"} ->
             {Arr(<<EmptyDoc, EmptyDoc>>), Arr(<<Num(1)>>), Num(1), EmptyDoc}
      [] k = "not" -> {EmptyDoc, Num(1)}

Keywords == SwitchKeys \cup {"title"}

\* a schema of one keyword
Singles == UNION {{Map(k :> v) : v \in Vals(k)} : k \in Keywords}

\* schemas of two bound keywords
PairKeys ==
    <<"minimum", "maximum", "exclusiveMinimum", "exclusiveMaximum", "minLength",
      "maxLength", "minProperties", "maxProperties", "minItems", "maxItems">>
PairVals(k) ==
    IF k \in {"exclusiveMinimum", "exclusiveMaximum"} THEN {Bool(TRUE), Bool(FALSE)}
    ELSE {Num(1), Num(2)}
Pairs ==
    UNION {{Map((PairKeys[i] :> v) @@ (PairKeys[j] :> w)) :
                v \in PairVals(PairKeys[i]), w \in PairVals(PairKeys[j])} :
           i \in 1..Len(PairKeys), j \in 1..Len(PairKeys)} \ Singles

\* sub-schemas placed under every keyword that holds one: some compile, some fail
Inner ==
    {EmptyDoc,
     Map("minimum" :> S("x")),
     Map(("minimum" :> Num(2)) @@ ("maximum" :> Num(1))),
     Map(("minimum" :> Num(1)) @@ ("maximum" :> Num(1))),
     Map("exclusiveMaximum" :> Bool(TRUE)),
     Map("title" :> Num(1)),
     Map("type" :> Arr(<<S("string"), S("foo")>>)),
     Map("allOf" :> Num(1))}

Sites ==
    {"definitions", "properties", "patternProperties", "dependencies", "items",
     "itemsTuple", "additionalItems", "additionalProperties", "oneOf", "anyOf",
     "allOf", "not", "$ref"}

\* keywords of the enclosing node that come after the sub-schema
Trailer == ("enum" :> Arr(<<Num(1)>>)) @@ ("not" :> EmptyDoc)

Wrap(c, d) ==
    Map(CASE c = "definitions" -> ("definitions" :> Map(("a" :> d) @@ ("b" :> EmptyDoc)))
          [] c = "properties" -> ("properties" :> Map(("p" :> d) @@ ("q" :> EmptyDoc)))
          [] c = "patternProperties" ->
                 ("patternProperties" :> Map(("^x" :> d) @@ ("^y" :> EmptyDoc)))
          [] c = "dependencies" ->
                 ("dependencies" :> Map(("p" :> d) @@ ("q" :> Arr(<<S("p")>>))))
          [] c = "items" -> ("items" :> d)
          [] c = "itemsTuple" -> ("items" :> Arr(<<EmptyDoc, d>>))
          [] c = "$ref" -> ("$ref" :> Str(RefA)) @@ ("definitions" :> Map("a" :> d))
          [] c \in {"oneOf", "anyOf", "allOf"} -> (c :> Arr(<<d, EmptyDoc>>))
          [] OTHER -> (c :> d)
        @@ Trailer)

Nested1 == {Wrap(c, d) : c \in Sites, d \in Inner}
Nested2 == {Wrap(c1, Wrap(c2, d)) : c1 \in Sites, c2 \in Sites \ {"$ref"}, d \in Inner}

\* schemas with references: the bodies of definitions a and b
Ref(r) == Map("$ref" :> Str(r))
Next_(d) == Map("properties" :> Map("next" :> d))
Bodies ==
    {EmptyDoc, Ref(RefA), Ref(RefB),
     Next_(Ref(RefA)), Next_(Ref(RefB)),
     Map("items" :> Next_(Ref(RefA))),
     Next_(Map(("$ref" :> Str(RefA)) @@ ("minimum" :> Num(1)) @@ ("title" :> S("x")))),
     Next_(Map(("$ref" :> Str(RefA)) @@ ("minimum" :> Num(2)) @@ ("maximum" :> Num(1)))),
     Map(("$ref" :> Str(RefB)) @@ ("minimum" :> Num(2)) @@ ("maximum" :> Num(1)))}
Props ==
    {Ref(RefA), Ref(RefB), Ref(RefRoot), Ref(RefUrlA),
     Map(("$ref" :> Str(RefA)) @@ ("minimum" :> Num(2)) @@ ("maximum" :> Num(1))),
     Map(("$ref" :> Str(RefA)) @@ ("exclusiveMinimum" :> Bool(TRUE))),
     Map(("$ref" :> Str(RefA)) @@ ("minLength" :> Num(2)) @@ ("maxLength" :> Num(1))),
     Map(("$ref" :> Str(RefA)) @@ ("minProperties" :> Num(2))
         @@ ("maxProperties" :> Num(1))),
     Map(("$ref" :> Str(RefA)) @@ ("not" :> Num(1)))}

Defs(da, db) == "definitions" :> Map(("a" :> da) @@ ("b" :> db))

RootRefs ==
    {Map(("$ref" :> Str(r)) @@ Defs(da, db)) :
         r \in {RefA, RefRoot, RefUrlA}, da \in Bodies, db \in Bodies}
PropRefs ==
    {Map(("properties" :> Map(("p" :> dp) @@ ("q" :> dq))) @@ Defs(da, db)) :
         dp \in Props, dq \in {Ref(RefA), EmptyDoc}, da \in Bodies,
         db \in {EmptyDoc, Ref(RefA)}}

Documents == Singles \cup Pairs \cup Nested1 \cup Nested2 \cup RootRefs \cup PropRefs \cup {Num(1)}

Loaders ==
    [ref : {RefRoot}, doc : Documents, ok : {TRUE}]
    \cup [ref : {SchemaUrl}, doc : RootRefs, ok : {TRUE}]
    \cup [ref : {RefRoot, SchemaUrl}, doc : {EmptyDoc}, ok : {FALSE}]

(***************************************************************************)
(* The specification.                                                       *)
(***************************************************************************)
Init ==
    /\ loader \in Loaders
    /\ status = "init"
    /\ nodes = <<>>
    /\ rootSchema = 0
    /\ referencePool = EmptyMap
    /\ standalone = Null
    /\ fetched = <<>>
    /\ regexpCache = {}
    /\ calls = <<>>
    /\ stack = <<>>
    /\ result = NoErr
    /\ log = <<>>

Next ==
    \/ NewSchema
    \/ parseSchema_entry
    \/ parseSchema_ref
    \/ parseSchema_definitions
    \/ parseSchema_annotations
    \/ parseSchema_properties
    \/ parseSchema_additionalProperties
    \/ parseSchema_patternProperties
    \/ parseSchema_dependencies
    \/ parseSchema_items
    \/ parseSchema_additionalItems
    \/ parseSchema_number
    \/ parseSchema_string
    \/ parseSchema_object
    \/ parseSchema_array
    \/ parseSchema_enum
    \/ parseSchema_oneOf
    \/ parseSchema_anyOf
    \/ parseSchema_allOf
    \/ parseSchema_not
    \/ parseSchema_return
    \/ StackOverflow
    \/ \E name \in RootNames : SetRootSchemaName(name)
    \/ Validate

Spec == Init /\ [][Next]_vars

(***************************************************************************)
(* regexpCompile under compiles that run in parallel.  Each compile is a    *)
(* goroutine that calls regexpCompile for the patterns of its schema, in    *)
(* turn.  The function takes no lock, so the goroutines' steps interleave   *)
(* freely; an access to the map regexpCache is not atomic: it begins in one *)
(* step and ends in a later one.                                            *)
(***************************************************************************)
MaxPatterns == 2      \* patterns one compile hands to regexpCompile

Compiles == {1, 2}
RegexpKeys == {<<"^x">>, <<"^y">>, <<"(">>}
PatternLists == UNION {[1..n -> RegexpKeys] : n \in 1..MaxPatterns}

\* a compile before its first call of regexpCompile
regexpCaller(todo) == [pc |-> "call", todo |-> todo, key |-> <<>>, err |-> FALSE]

\* another goroutine is inside an access to the map
OtherReading(p) == \E q \in Compiles \ {p} : calls[q].pc = "lookup"
OtherWriting(p) == \E q \in Compiles \ {p} : calls[q].pc = "store"

\* the call returns to the compile, which goes on with its next pattern
regexpReturn(c, failed) ==
    IF failed THEN [c EXCEPT !.pc = "done", !.err = TRUE]
    ELSE IF Len(c.todo) = 1 THEN [c EXCEPT !.pc = "done", !.todo = <<>>]
    ELSE [c EXCEPT !.pc = "call", !.todo = Tail(c.todo)]

\* the Go runtime detects the concurrent map access and ends the process
regexpFatal == [q \in Compiles |-> [calls[q] EXCEPT !.pc = "fatal"]]

Unchanged_regexp ==
    UNCHANGED <<loader, status, nodes, rootSchema, referencePool, standalone, fetched,
                stack, result, log>>

\* `regexpCache[key]` begins: the read of the map is in progress
regexpCompile_enter(p) ==
    /\ calls[p].pc = "call"
    /\ calls' = [calls EXCEPT ![p].pc = "lookup", ![p].key = Head(calls[p].todo)]
    /\ UNCHANGED regexpCache
    /\ Unchanged_regexp

\* `if re, ok := regexpCache[key]; ok { return re, nil }`: the read ends.  A read
\* that overlaps a write is a data race: it may find the key or not, or the
\* runtime ends the process
regexpCompile_lookup(p) ==
    /\ calls[p].pc = "lookup"
    /\ \E hit \in BOOLEAN, fatal \in BOOLEAN :
           /\ ~OtherWriting(p) => (~fatal /\ hit = (calls[p].key \in regexpCache))
           /\ calls' = IF fatal THEN regexpFatal
                       ELSE IF hit THEN [calls EXCEPT ![p] = regexpReturn(@, FALSE)]
                       ELSE [calls EXCEPT ![p].pc = "compile"]
    /\ UNCHANGED regexpCache
    /\ Unchanged_regexp

\* `re, err := regexp.Compile(key)`; on success `regexpCache[key] = re` begins
regexpCompile_compile(p) ==
    /\ calls[p].pc = "compile"
    /\ calls' = IF RegexpValid(calls[p].key)
                THEN [calls EXCEPT ![p].pc = "store"]
                ELSE [calls EXCEPT ![p] = regexpReturn(@, TRUE)]
    /\ UNCHANGED regexpCache
    /\ Unchanged_regexp

\* `regexpCache[key] = re; return re, nil`: the write ends.  A write that
\* overlaps another access is a data race: the entry is stored or lost, or the
\* runtime ends the process
regexpCompile_store(p) ==
    /\ calls[p].pc = "store"
    /\ \E stored \in BOOLEAN, fatal \in BOOLEAN :
           /\ ~(OtherWriting(p) \/ OtherReading(p)) => (~fatal /\ stored)
           /\ calls' = IF fatal THEN regexpFatal
                       ELSE [calls EXCEPT ![p] = regexpReturn(@, FALSE)]
           /\ regexpCache' = IF ~fatal /\ stored
                             THEN regexpCache \cup {calls[p].key}
                             ELSE regexpCache
    /\ Unchanged_regexp

InitRegexp ==
    /\ loader = [ref |-> RefRoot, doc |-> EmptyDoc, ok |-> TRUE]
    /\ status = "init"
    /\ nodes = <<>>
    /\ rootSchema = 0
    /\ referencePool = EmptyMap
    /\ standalone = Null
    /\ fetched = <<>>
    /\ regexpCache = {}
    /\ stack = <<>>
    /\ result = NoErr
    /\ log = <<>>
    /\ calls \in [Compiles -> {regexpCaller(t) : t \in PatternLists}]

NextRegexp ==
    \E p \in Compiles :
        \/ regexpCompile_enter(p)
        \/ regexpCompile_lookup(p)
        \/ regexpCompile_compile(p)
        \/ regexpCompile_store(p)

SpecRegexp == InitRegexp /\ [][NextRegexp]_vars

(***************************************************************************)
(* Reading the graph.                                                       *)
(***************************************************************************)
Nodes == 1..Len(nodes)
Done == status \in {"ok", "error"}
Processed(i, g) == InSeq(log, <<i, g>>)

\* the $ref text of the document node a node was compiled from
HasRefText(i) ==
    /\ nodes[i].documentNode.t = "map"
    /\ "$ref" \in DOMAIN nodes[i].documentNode.map
    /\ nodes[i].documentNode.map["$ref"].t = "string"
RefText(i) == nodes[i].documentNode.map["$ref"].str

\* a node parseReference allocated, and the node whose $ref it was allocated for
IsTarget(i) == nodes[i].property = "$ref" /\ nodes[i].parent # 0
\* parseReference was entered for node i and allocated a target
ViaParseReference(i) == \E j \in Nodes : IsTarget(j) /\ nodes[j].parent = i
\* the (base URI, fragment) a target was allocated for: its referrer's resolved ref
TargetRef(j) == nodes[nodes[j].parent].ref
\* the $ref text a target was allocated for
AllocText(j) == RefText(nodes[j].parent)

\* the target whose body holds node i: i itself, or the nearest ancestor, that
\* parseReference allocated (0 = none)
RECURSIVE Enclosing(_)
Enclosing(i) ==
    IF i = 0 THEN 0 ELSE IF IsTarget(i) THEN i ELSE Enclosing(nodes[i].parent)

\* two parseReference calls in progress for the same document node and ref
Reentered ==
    \E i, j \in 1..Len(stack) :
        /\ i < j
        /\ stack[i].pc = "$ref" /\ stack[j].pc = "$ref"
        /\ stack[i].started /\ stack[j].started
        /\ stack[i].doc = stack[j].doc
        /\ nodes[stack[i].node].ref = nodes[stack[j].node].ref

(***************************************************************************)
(* C1.  A schema whose definition a is {"$ref": "#/definitions/b"} and      *)
(* whose definition b is {"$ref": "#/definitions/a"} compiles in finitely   *)
(* many steps: parseReference is never entered again for a reference it is  *)
(* still resolving, the recursion stays below MaxDepth frames, and the      *)
(* compiled graph holds two nodes that are each other's refSchema.          *)
(***************************************************************************)
MutualCycle ==
    /\ loader.ok /\ loader.doc.t = "map"
    /\ "definitions" \in DOMAIN loader.doc.map
    /\ loader.doc.map["definitions"] = Map(("a" :> Ref(RefB)) @@ ("b" :> Ref(RefA)))

C1_MutualCycleCompiles ==
    MutualCycle =>
        /\ ~Reentered
        /\ status # "overflow"
        /\ status = "ok" =>
               \E i, j \in Nodes :
                   i # j /\ nodes[i].refSchema = j /\ nodes[j].refSchema = i

(***************************************************************************)
(* C2.  Interning: within one compile at most one node is allocated for a   *)
(* (base URI, fragment) target, and any two nodes whose $ref resolves to    *)
(* the same target have the same refSchema.                                 *)
(***************************************************************************)
C2_OneNodePerTarget ==
    /\ \A i, j \in Nodes :
           (IsTarget(i) /\ IsTarget(j) /\ TargetRef(i) = TargetRef(j)) => i = j
    /\ status = "ok" =>
           \A i, j \in Nodes :
               (nodes[i].refSchema # 0 /\ nodes[j].refSchema # 0
                /\ nodes[i].ref = nodes[j].ref)
               => nodes[i].refSchema = nodes[j].refSchema

(***************************************************************************)
(* C3.  Self-reference: a node that lies in the body of the target that     *)
(* parseReference allocated for the $ref text R (or is that target) and     *)
(* that carries the same $ref text R gets that target as its refSchema in   *)
(* the step that handles its $ref, the target being registered already;     *)
(* parseReference is not entered for it, so no further node is allocated.   *)
(* A target is in the pool under its key when parseSchema enters its body.  *)
(* The two schemas the claim names compile, without error and with at most  *)
(* three nodes.                                                             *)
(***************************************************************************)
SelfReference(i) ==
    /\ HasRefText(i)
    /\ Enclosing(i) # 0
    /\ AllocText(Enclosing(i)) = RefText(i)

\* the two schemas the claim gives: the root refers to definition a, whose
\* property next refers to definition a; and the root refers to itself
SelfExamples ==
    /\ loader.ok /\ loader.ref = RefRoot
    /\ loader.doc \in {Map(("$ref" :> Str(RefA)) @@ Defs(Next_(Ref(RefA)), EmptyDoc)),
                       Ref(RefRoot)}

\* parseSchema is about to read the body of a target parseReference allocated
AtTargetBody == stack # <<>> /\ top.pc = "entry" /\ IsTarget(cur)

C3_SelfReferenceInterned ==
    /\ AtTargetBody =>
           /\ PoolHas(referencePool, TargetRef(cur) \o AllocText(cur))
           /\ PoolGet(referencePool, TargetRef(cur) \o AllocText(cur)) = cur
    /\ \A i \in Nodes :
           (SelfReference(i) /\ Processed(i, "$ref")) =>
               /\ nodes[i].refSchema = Enclosing(i)
               /\ ~ViaParseReference(i)
    /\ SelfExamples => (status \notin {"error", "overflow"} /\ Len(nodes) <= 3)

\* the compile of a self-referencing schema has ended well, the inner node
\* pointing at the target that holds it
C3_Witness ==
    /\ status = "ok"
    /\ \E i \in Nodes :
           /\ SelfReference(i) /\ Enclosing(i) # i
           /\ nodes[i].refSchema = Enclosing(i)

(***************************************************************************)
(* C4.  Once NewSchema has returned a Schema, no public operation changes   *)
(* any field of any node of its graph.                                      *)
(***************************************************************************)
C4_GraphImmutable == [][status = "ok" => nodes' = nodes]_vars

\* C4 as amended: the one field a public operation changes is the property of
\* the root node, which SetRootSchemaName sets; every other field of the root
\* and every other node stay as NewSchema returned them.
C4_OnlyRootPropertyChanges ==
    [][status = "ok" =>
          /\ Len(nodes') = Len(nodes)
          /\ rootSchema' = rootSchema
          /\ \A i \in Nodes : i # rootSchema => nodes'[i] = nodes[i]
          /\ [nodes'[rootSchema] EXCEPT !.property = nodes[rootSchema].property]
                 = nodes[rootSchema]]_vars

\* SetRootSchemaName has renamed the root of a compiled graph of several nodes
C4_Witness ==
    /\ status = "ok" /\ Len(nodes) > 1
    /\ nodes[rootSchema].property = "person"

(***************************************************************************)
(* C5.  A schema of one recognized keyword whose value has the wrong JSON   *)
(* type fails to compile and the error names that keyword; a value of the   *)
(* right type and form compiles.                                            *)
(***************************************************************************)
\* the JSON types the compiler's algorithm allows for a keyword
TypesFor(k) ==
    CASE k \in {"$schema", "$ref", "id", "title", "description", "pattern", "format"}
             -> {"string"}
      [] k = "type" -> {"string", "array"}
      [] k \in {"definitions", "properties", "patternProperties", "dependencies", "not"}
             -> {"map"}
      [] k \in {"additionalProperties", "additionalItems"} -> {"bool", "map"}
      [] k = "items" -> {"array", "map"}
      [] k \in {"exclusiveMinimum", "exclusiveMaximum", "uniqueItems"} -> {"bool"}
      [] k \in {"required", "enum", "oneOf", "anyOf", "allOf"} -> {"array"}
      [] OTHER -> {"number"}

SingleKeyword(k) ==
    /\ loader.ok /\ loader.doc.t = "map" /\ DOMAIN loader.doc.map = {k}

C5_WrongTypeNamesKeyword ==
    \A k \in Keywords :
        (Done /\ SingleKeyword(k) /\ loader.doc.map[k].t \notin TypesFor(k)) =>
            (status = "error" /\ result.key = k)

(***************************************************************************)
(* C6.  A node whose document declares minimum > maximum, minLength >       *)
(* maxLength or minProperties > maxProperties fails the compile; equal      *)
(* bounds compile; every compiled node has lower <= upper for these pairs.  *)
(***************************************************************************)
DeclaresGreater(d, lo, hi) ==
    /\ d.t = "map" /\ lo \in DOMAIN d.map /\ hi \in DOMAIN d.map
    /\ d.map[lo].t = "number" /\ d.map[hi].t = "number"
    /\ d.map[lo].num > d.map[hi].num

CrossChecked ==
    {<<"minimum", "maximum">>, <<"minLength", "maxLength">>,
     <<"minProperties", "maxProperties">>}

Ordered(n, lo, hi) == (n[lo] # None /\ n[hi] # None) => n[lo][1] <= n[hi][1]

EqualBounds ==
    /\ loader.ok /\ loader.doc.t = "map"
    /\ \E pr \in CrossChecked :
           /\ DOMAIN loader.doc.map = {pr[1], pr[2]}
           /\ loader.doc.map[pr[1]] = Num(1) /\ loader.doc.map[pr[2]] = Num(1)

C6_GreaterLowerBoundFails ==
    /\ status = "ok" =>
           \A i \in Nodes : \A pr \in CrossChecked :
               /\ ~DeclaresGreater(nodes[i].documentNode, pr[1], pr[2])
               /\ Ordered(nodes[i], pr[1], pr[2])
    /\ (Done /\ EqualBounds) => status = "ok"

\* C6 as amended: the node is one whose keywords parseSchema reads, that is,
\* not a node whose $ref misses the pool: for that node parseSchema returns
\* with parseReference's result before it reads any other keyword.
C6_GreaterLowerBoundFailsUnlessRef ==
    /\ status = "ok" =>
           \A i \in Nodes : \A pr \in CrossChecked :
               /\ DeclaresGreater(nodes[i].documentNode, pr[1], pr[2])
                      => ViaParseReference(i)
               /\ Ordered(nodes[i], pr[1], pr[2])
    /\ (Done /\ EqualBounds) => status = "ok"

\* the cross-check has rejected a schema
C6_Witness ==
    /\ status = "error"
    /\ result \in {Err("CannotBeGT", "minimum"), Err("CannotBeGT", "minLength"),
                   Err("KeyCannotBeGreaterThan", "minProperties")}
    /\ \E i \in Nodes : \E pr \in CrossChecked :
           DeclaresGreater(nodes[i].documentNode, pr[1], pr[2])

(***************************************************************************)
(* C7.  Every node of a compiled graph with minItems and maxItems set has   *)
(* minItems <= maxItems.                                                    *)
(***************************************************************************)
C7_MinItemsMaxItems ==
    status = "ok" => \A i \in Nodes : Ordered(nodes[i], "minItems", "maxItems")

(***************************************************************************)
(* C8.  A node whose document declares a boolean exclusiveMinimum without   *)
(* minimum (exclusiveMaximum without maximum) fails the compile; with the   *)
(* base bound the pair compiles; on every compiled node a true exclusive    *)
(* flag comes with its bound.                                               *)
(***************************************************************************)
Exclusives == {<<"exclusiveMinimum", "minimum">>, <<"exclusiveMaximum", "maximum">>}

DeclaresWithout(d, ex, base) ==
    /\ d.t = "map" /\ ex \in DOMAIN d.map /\ d.map[ex].t = "bool"
    /\ (base \notin DOMAIN d.map \/ d.map[base].t = "null")

ExclusiveWithBase ==
    /\ loader.ok /\ loader.doc.t = "map"
    /\ \E pr \in Exclusives :
           /\ DOMAIN loader.doc.map = {pr[1], pr[2]}
           /\ loader.doc.map[pr[1]].t = "bool" /\ loader.doc.map[pr[2]].t = "number"

C8_ExclusiveNeedsBase ==
    /\ status = "ok" =>
           \A i \in Nodes : \A pr \in Exclusives :
               /\ ~DeclaresWithout(nodes[i].documentNode, pr[1], pr[2])
               /\ nodes[i][pr[1]] => nodes[i][pr[2]] # None
    /\ (Done /\ ExclusiveWithBase) => status = "ok"

\* C8 as amended: the node is one whose keywords parseSchema reads (see C6).
C8_ExclusiveNeedsBaseUnlessRef ==
    /\ status = "ok" =>
           \A i \in Nodes : \A pr \in Exclusives :
               /\ DeclaresWithout(nodes[i].documentNode, pr[1], pr[2])
                      => ViaParseReference(i)
               /\ nodes[i][pr[1]] => nodes[i][pr[2]] # None
    /\ (Done /\ ExclusiveWithBase) => status = "ok"

\* an exclusive flag without its bound has been rejected
C8_Witness ==
    /\ status = "error"
    /\ result \in {Err("CannotBeUsedWithout", "exclusiveMinimum"),
                   Err("CannotBeUsedWithout", "exclusiveMaximum")}

(***************************************************************************)
(* C9.  Once a parseSchema call returns an error, every caller returns that *)
(* error in turn: no keyword group is processed any more, at the failing    *)
(* node or at an enclosing one, no node changes, and NewSchema ends with    *)
(* that error and no Schema.                                                *)
(***************************************************************************)
ErrorReturned ==
    status = "running" /\ stack # <<>> /\ top.pc = "return" /\ top.err # NoErr

C9_ErrorsShortCircuit ==
    [][ErrorReturned =>
          /\ log' = log
          /\ nodes' = nodes
          /\ \/ /\ ErrorReturned'
                /\ Len(stack') = Len(stack) - 1
                /\ stack'[Len(stack')].err = top.err
             \/ /\ Len(stack) = 1
                /\ status' = "error" /\ result' = top.err /\ rootSchema' = 0]_vars

\* a sub-schema two levels below the root has failed and the error is on its
\* way up
C9_Witness == ErrorReturned /\ Len(stack) >= 3

(***************************************************************************)
(* C10.  The keywords that stand beside a string $ref on a node are         *)
(* processed on that node too, whether the $ref is found in the pool or     *)
(* parseReference is called.                                                *)
(***************************************************************************)
SiblingGroups(i) ==
    {g \in {Groups[x] : x \in 1..Len(Groups)} \ {"$ref"} :
         Present(nodes[i].documentNode.map, g)}

C11_RegexpCacheExclusive ==
    \A p, q \in DOMAIN calls :
        (p # q /\ calls[p].pc = "store") => calls[q].pc \notin {"lookup", "store"}

(***************************************************************************)
(* C12.  No node of a compiled graph was read from a `type` value, a string *)
(* or a sequence of strings, that holds a name the type set rejects: a name *)
(* that is no JSON type, or a name given twice.                             *)
(***************************************************************************)
\* the names a `type` value gives, in order
TypeNames(v) ==
    IF v.t = "string" THEN <<v.str>>
    ELSE IF v.t = "array" /\ \A x \in 1..Len(v.arr) : v.arr[x].t = "string"
         THEN [x \in 1..Len(v.arr) |-> v.arr[x].str]
         ELSE <<>>

RejectedNames(names) ==
    \E x \in 1..Len(names) :
        \/ names[x] \notin JSON_TYPES
        \/ \E y \in 1..(x - 1) : names[y] = names[x]

DeclaresRejectedType(d) ==
    /\ d.t = "map" /\ "type" \in DOMAIN d.map
    /\ RejectedNames(TypeNames(d.map["type"]))

C12_TypeRejectionAborts ==
    status = "ok" =>
        \A i \in Nodes :
            Processed(i, "annotations") => ~DeclaresRejectedType(nodes[i].documentNode)

(***************************************************************************)
(* C13.  On a compiled node whose `dependencies` value is the mapping D,    *)
(* the dependencies field has exactly the keys of D; a key of D whose value *)
(* is a sequence of strings holds that list, in order, the empty one too;   *)
(* a key whose value is a mapping holds the child compiled from it, whose   *)
(* parent is the node.                                                      *)
(***************************************************************************)
DependenciesOf(i) == nodes[i].documentNode.map["dependencies"]

HasDependencies(i) ==
    /\ Processed(i, "dependencies")
    /\ nodes[i].documentNode.t = "map"
    /\ "dependencies" \in DOMAIN nodes[i].documentNode.map
    /\ DependenciesOf(i).t = "map"

RegisteredAs(i, k, dv) ==
    /\ k \in DOMAIN nodes[i].dependencies
    /\ LET e == nodes[i].dependencies[k] IN
       CASE dv.t = "array" ->
                e = ListVariant([x \in 1..Len(dv.arr) |-> dv.arr[x].str])
         [] dv.t = "map" ->
                /\ e.t = "schema"
                /\ nodes[e.node].parent = i
                /\ nodes[e.node].documentNode = dv
         [] OTHER -> FALSE

C13_DependenciesRegistered ==
    status = "ok" =>
        \A i \in Nodes :
            HasDependencies(i) =>
                /\ DOMAIN nodes[i].dependencies = DOMAIN DependenciesOf(i).map
                /\ \A k \in DOMAIN DependenciesOf(i).map :
                       RegisteredAs(i, k, DependenciesOf(i).map[k])

(***************************************************************************)
(* C14.  Where $ref targets come from.  Root reference "#": the loaded      *)
(* document is the standalone document from NewSchema on, GetDocument is    *)
(* never called, and every $ref, one with a full URL too, gets the node its *)
(* pointer designates in the standalone document: a target that exists was  *)
(* read from there, and a $ref fails as unresolvable only if its pointer    *)
(* designates nothing there.  Any other root reference: no standalone       *)
(* document is installed, GetDocument was called for the resolved ref of    *)
(* every target, and the target was read from the document it returned.     *)
(***************************************************************************)
Inline == loader.ref = RefRoot

\* the node whose $ref has just failed as unresolvable
Unresolved == log[Len(log)][1]

C14_RefTargetSource ==
    /\ (Inline /\ loader.ok /\ status # "init") => standalone = loader.doc
    /\ Inline => fetched = <<>>
    /\ ~Inline => standalone = Null
    /\ \A j \in Nodes :
           (IsTarget(j) /\ Processed(j, "entry")) =>
               IF Inline
               THEN /\ PointerGet(standalone, RefPointer(TargetRef(j))).ok
                    /\ nodes[j].documentNode =
                           PointerGet(standalone, RefPointer(TargetRef(j))).node
               ELSE /\ InSeq(fetched, TargetRef(j))
                    /\ PoolDocument(TargetRef(j)).ok
                    /\ nodes[j].documentNode =
                           PointerGet(PoolDocument(TargetRef(j)).doc,
                                      RefPointer(TargetRef(j))).node
    /\ (Inline /\ status = "error" /\ result = Err("Unresolvable", "$ref")) =>
           ~PointerGet(standalone, RefPointer(nodes[Unresolved].ref)).ok

\* an inline schema has compiled with a $ref that carries a full URL, its
\* target read from the standalone document
C14_Witness ==
    /\ Inline /\ status = "ok"
    /\ \E j \in Nodes :
           /\ IsTarget(j) /\ HasFullUrl(TargetRef(j))
           /\ nodes[j].documentNode.t = "map"

====
